---- MODULE Spec2Model ----
(***************************************************************************)
(* Model of salt/modules/nilrt_ip.py: the IPv4 configuration of network    *)
(* interfaces on NI Linux Real-Time, split between the connman daemon      *)
(* (live services) and /var/lib/connman/interfaces.config (Static Store).  *)
(*                                                                         *)
(* A Python string is a sequence of atoms: an atom is a token the code     *)
(* never looks into ("A1" an address, "M1" a netmask) or one of the        *)
(* characters the code splits, joins or strips on ("/", ",", ":", " ").    *)
(* A Python dict is a function from its keys; a list is a sequence.        *)
(* The module calls ConfigParser.read_file, which only Python 3 has, so    *)
(* built-in behaviour is Python 3's.                                       *)
(***************************************************************************)
EXTENDS Integers, Sequences, FiniteSets, TLC

VARIABLES
    ifaces,     \* pyiface.getIfaces(): the host's interfaces, in enumeration order
    services,   \* pyconnman.ConnManager().get_services(): the daemon's listing
    props,      \* the properties the daemon holds for each service
    file,       \* INTERFACES_CONFIG on disk
    pc,         \* position of the call in progress ("idle" between calls)
    call,       \* arguments of the set_static_all call in progress
    ret,        \* outcome of the last finished call
    log         \* daemon mutations and file writes issued by the current/last call

vars == <<ifaces, services, props, file, pc, call, ret, log>>

S(a) == <<a>>

IFF_LOOPBACK == 8

----------------------------------------------------------------------------
(* Python built-ins on strings and lists *)

\* str.split(sep) with an explicit separator: ''.split(',') is ['']
RECURSIVE split(_, _)
split(s, sep) ==
    IF \A i \in 1..Len(s) : s[i] # sep
    THEN <<s>>
    ELSE LET k == CHOOSE i \in 1..Len(s) :
                      s[i] = sep /\ \A j \in 1..(i - 1) : s[j] # sep
         IN  <<SubSeq(s, 1, k - 1)>> \o split(SubSeq(s, k + 1, Len(s)), sep)

\* sep.join(list)
RECURSIVE join(_, _)
join(sep, list) ==
    IF list = <<>> THEN <<>>
    ELSE IF Len(list) = 1 THEN list[1]
    ELSE list[1] \o sep \o join(sep, Tail(list))

\* str.strip()
RECURSIVE lstrip(_)
lstrip(s) == IF s # <<>> /\ Head(s) = " " THEN lstrip(Tail(s)) ELSE s

RECURSIVE rstrip(_)
rstrip(s) ==
    IF s # <<>> /\ s[Len(s)] = " " THEN rstrip(SubSeq(s, 1, Len(s) - 1)) ELSE s

strip(s) == lstrip(rstrip(s))

\* flags & mask == 0, for a one-bit mask
BitClear(flags, mask) == (flags \div mask) % 2 = 0

----------------------------------------------------------------------------
(* Validator *)

AddrAtoms == {"A1", "A2", "G1"}
MaskAtoms == {"M1"}

\* salt.utils.validate.net.ipv4_addr: dotted quad (a netmask is one too)
ipv4_addr(s) == Len(s) = 1 /\ s[1] \in AddrAtoms \cup MaskAtoms

\* salt.utils.validate.net.netmask
netmask(s) == Len(s) = 1 /\ s[1] \in MaskAtoms

\* _validate_ipv4 with the netmask looked at before the address
_validate_ipv4NetmaskFirst(value) ==
    IF Len(value) = 3
    THEN IF ~netmask(strip(value[2]))
         THEN [valid |-> FALSE, msg |-> "Invalid netmask", value |-> value[2]]
         ELSE IF ~ipv4_addr(strip(value[1]))
         THEN [valid |-> FALSE, msg |-> "Invalid ip address", value |-> value[1]]
         ELSE IF ~ipv4_addr(strip(value[3]))
         THEN [valid |-> FALSE, msg |-> "Invalid gateway", value |-> value[3]]
         ELSE [valid |-> TRUE, msg |-> "", value |-> <<>>]
    ELSE [valid |-> FALSE, msg |-> "Invalid value", value |-> value]

\* _validate_ipv4: (valid, message), as [valid, msg, value] where msg is the
\* head of the message and value what the message is formatted with
_validate_ipv4(value) ==
    IF Len(value) = 3
    THEN IF ~ipv4_addr(strip(value[1]))
         THEN [valid |-> FALSE, msg |-> "Invalid ip address", value |-> value[1]]
         ELSE IF ~netmask(strip(value[2]))
         THEN [valid |-> FALSE, msg |-> "Invalid netmask", value |-> value[2]]
         ELSE IF ~ipv4_addr(strip(value[3]))
         THEN [valid |-> FALSE, msg |-> "Invalid gateway", value |-> value[3]]
         ELSE [valid |-> TRUE, msg |-> "", value |-> <<>>]
    ELSE [valid |-> FALSE, msg |-> "Invalid value", value |-> value]

\* A nameservers argument is [kind, val]: a list of strings, a string, or a
\* number.  Lists and (Python 3) strings have __iter__; a number has neither
\* __iter__ nor split, so value.split() raises AttributeError.
_space_delimited_list(value) == value.kind \in {"list", "str"}

\* truth value of the argument: `if nameservers:`
Truthy(value) == IF value.kind = "num" THEN value.val # 0 ELSE value.val # <<>>

----------------------------------------------------------------------------
(* Service Directory: what the daemon reports.  Operators take the daemon's *)
(* listing (list) and properties (pr) and the file (f) they read.           *)

ServiceIds == {"s1", "s2"}

None == "None"

\* get_property('IPv4') and get_property('IPv4.Configuration'): connman
\* reports the one method of the service's ipconfig under both properties
\* a property dict without any key
NoFields == [x \in {} |-> <<>>]

\* the Method of a service whose IPv4 property carries none
NoMethod == <<>>

IPv4Of(p) == IF p.Method = NoMethod THEN p.IPv4 ELSE ("Method" :> p.Method) @@ p.IPv4
IPv4CfgOf(p) == IF p.Method = NoMethod THEN p.Cfg ELSE ("Method" :> p.Method) @@ p.Cfg

\* mutant: a ready service taken for unconnected
_connectedOnlineOnly(pr, service) == pr[service].State = "online"

_connected(pr, service) == pr[service].State = "online" \/ pr[service].State = "ready"

\* the loop of _interface_to_service: the first listed service bound to iface
\* _interface_to_service that keeps looking after the first match
_interface_to_serviceLast(list, pr, iface) ==
    IF \E i \in 1..Len(list) : pr[list[i]].Interface = iface
    THEN list[CHOOSE i \in 1..Len(list) :
                  /\ pr[list[i]].Interface = iface
                  /\ \A j \in (i + 1)..Len(list) : pr[list[j]].Interface # iface]
    ELSE None

_interface_to_service(list, pr, iface) ==
    IF \E i \in 1..Len(list) : pr[list[i]].Interface = iface
    THEN list[CHOOSE i \in 1..Len(list) :
                  /\ pr[list[i]].Interface = iface
                  /\ \A j \in 1..(i - 1) : pr[list[j]].Interface # iface]
    ELSE None

\* service.set_property(name, value) accepted by the daemon; connman skips
\* the empty strings of a nameserver list, which is how [''] resets the list
set_property(pr, service, name, value) ==
    IF name = "IPv4.Configuration"
    THEN [pr EXCEPT ![service].Method = value["Method"],
                    ![service].Cfg = [k \in DOMAIN value \ {"Method"} |-> value[k]]]
    ELSE [pr EXCEPT ![service].NsCfg = SelectSeq(value, LAMBDA x : x # <<>>)]

----------------------------------------------------------------------------
(* Static Store: INTERFACES_CONFIG read and written with ConfigParser *)

NoSections == [x \in {} |-> <<>>]

\* parser.read_file: a line before the first section header raises
\* MissingSectionHeaderError, which the code swallows, leaving the parser
\* empty; option values are stripped when parsed
Load(f) ==
    IF f.exists /\ ~f.headerless
    THEN [sec \in DOMAIN f.sections |->
             [o \in DOMAIN f.sections[sec] |-> strip(f.sections[sec][o])]]
    ELSE NoSections

\* 'interface_{0}'.format(''.join(hwaddr.split(':')))
SectionId(hwaddr) == <<"interface_">> \o join(<<>>, split(hwaddr, ":"))

\* interface.hwaddr[:-1]
Hwaddr(interface) == SubSeq(interface.hwaddr, 1, Len(interface.hwaddr) - 1)

Put(d, k, v) == [x \in DOMAIN d \cup {k} |-> IF x = k THEN v ELSE d[x]]

\* pyiface.Interface(name=interface)
Interface(name) == ifaces[CHOOSE i \in 1..Len(ifaces) : ifaces[i].name = name]

\* `interface in pyiface.getIfaces()`: taken as the test that the host has an
\* interface of that name, the reading under which the branch can be entered
interface_exists(name) == \E i \in 1..Len(ifaces) : ifaces[i].name = name

\* mutant: the section is set in a fresh parser instead of the one read
UpsertFresh(parser, hwaddr, ip_address, nmask, gateway, dns_servers) ==
    LET sec == SectionId(hwaddr)
    IN  Put(NoSections, sec,
            [ipv4 |-> ip_address \o S("/") \o nmask \o S("/") \o gateway,
             nameservers |-> dns_servers,
             name |-> <<"ethernet_cable_">> \o Tail(sec),
             mac |-> hwaddr, type |-> S("ethernet")])

\* mutant: the nameservers are added to those the section already has
UpsertMerge(parser, hwaddr, ip_address, nmask, gateway, dns_servers) ==
    LET sec == SectionId(hwaddr)
        old == IF sec \in DOMAIN parser THEN parser[sec] ELSE NoSections
    IN  Put(parser, sec,
            [ipv4 |-> ip_address \o S("/") \o nmask \o S("/") \o gateway,
             nameservers |-> IF "nameservers" \in DOMAIN old
                             THEN old["nameservers"] \o S(",") \o dns_servers
                             ELSE dns_servers,
             name |-> <<"ethernet_cable_">> \o Tail(sec),
             mac |-> hwaddr, type |-> S("ethernet")])

\* the parser after has_section/add_section and the five parser.set calls
Upsert(parser, hwaddr, ip_address, nmask, gateway, dns_servers) ==
    LET sec == SectionId(hwaddr)
        old == IF sec \in DOMAIN parser THEN parser[sec] ELSE NoSections
        o1 == Put(old, "ipv4", ip_address \o S("/") \o nmask \o S("/") \o gateway)
        o2 == Put(o1, "nameservers", dns_servers)
        o3 == Put(o2, "name", <<"ethernet_cable_">> \o Tail(sec))
        o4 == Put(o3, "mac", hwaddr)
        o5 == Put(o4, "type", S("ethernet"))
    IN  Put(parser, sec, o5)

\* the file after _configure_static_interface(interface, ip=, dns=, netmask=, gateway=)
_configure_static_interface(f, interface, ip_address, nmask, gateway, dns_servers) ==
    [exists |-> TRUE, headerless |-> FALSE,
     sections |-> Upsert(Load(f), Hwaddr(interface),
                         ip_address, nmask, gateway, dns_servers)]

----------------------------------------------------------------------------
(* State Normalizer *)

supportedrequestmodes == <<S("static"), S("dhcp_linklocal")>>

\* mutant: fixed is not translated
requestmodeNoFixed(value) ==
    IF value = S("dhcp") THEN S("dhcp_linklocal")
    ELSE IF value = S("manual") THEN S("static")
    ELSE value

\* the translation of Method in _get_service_info
requestmode(value) ==
    IF value = S("dhcp") THEN S("dhcp_linklocal")
    ELSE IF value \in {S("manual"), S("fixed")} THEN S("static")
    ELSE value

\* a result is [exc, data]: exc is "none" or the exception that escapes
Returns(data) == [exc |-> "none", data |-> data]
Raises(e) == [exc |-> e, data |-> <<>>]

\* data['ipv6'][key] = [ipv6Info[info]] inside its try: the assignment
\* takes place only if ipv6Info has info and data has an 'ipv6' dict
SetIPv6(data, ipv6Info, info, key) ==
    IF info \in DOMAIN ipv6Info /\ "ipv6" \in DOMAIN data
    THEN [data EXCEPT !["ipv6"] = Put(@, key, <<ipv6Info[info]>>)]
    ELSE data

\* lines 170-203, the branch of a ready or online service, once line 176 has
\* found the Method
Connected(p, head) ==
    LET ipv4Info == IF IPv4Of(p)["Method"] = S("manual") THEN IPv4CfgOf(p) ELSE IPv4Of(p)
        d0 == ("gateway" :> S("0.0.0.0"))
        d1 == IF "Method" \in DOMAIN ipv4Info
              THEN Put(d0, "requestmode", requestmode(ipv4Info["Method"])) ELSE d0
        d2 == IF "Address" \in DOMAIN ipv4Info
              THEN Put(d1, "address", ipv4Info["Address"]) ELSE d1
        d3 == IF "Netmask" \in DOMAIN ipv4Info
              THEN Put(d2, "netmask", ipv4Info["Netmask"]) ELSE d2
        d4 == IF "Gateway" \in DOMAIN ipv4Info
              THEN Put(d3, "gateway", ipv4Info["Gateway"]) ELSE d3
        e0 == Put(Put(head, "up", TRUE), "ipv4", d4)
        e1 == SetIPv6(e0, p.IPv6, "Address", "address")
        e2 == SetIPv6(e1, p.IPv6, "Prefix", "prefix")
        e3 == SetIPv6(e2, p.IPv6, "Gateway", "gateway")
    IN  [e3 EXCEPT !["ipv4"] = Put(@, "dns", p.Nameservers)]

\* lines 207-211
Supported(data) ==
    IF "ipv4" \in DOMAIN data
    THEN [data EXCEPT !["ipv4"] = Put(@, "supportedrequestmodes", supportedrequestmodes)]
    ELSE data

\* _get_service_info with an ipv4 dict made for every service at line 207
_get_service_infoIPv4WhenDown(pr, service) ==
    LET p == pr[service]
        head == [label |-> S(service),
                 wireless |-> (p.Type = "wifi"),
                 connectionid |-> p.Interface,
                 hwaddr |-> p.Address]
    IN  IF p.State = "ready" \/ p.State = "online"
        THEN IF "Method" \notin DOMAIN IPv4Of(p) THEN Raises("KeyError")
             ELSE Returns(Supported(Connected(p, head)))
        ELSE Returns(Supported(Put(Put(head, "up", FALSE), "ipv4", NoFields)))

\* _get_service_info; line 176 reads ['Method'] outside any try
_get_service_info(pr, service) ==
    LET p == pr[service]
        head == [label |-> S(service),
                 wireless |-> (p.Type = "wifi"),
                 connectionid |-> p.Interface,
                 hwaddr |-> p.Address]
    IN  IF p.State = "ready" \/ p.State = "online"
        THEN IF "Method" \notin DOMAIN IPv4Of(p) THEN Raises("KeyError")
             ELSE Returns(Supported(Connected(p, head)))
        ELSE Returns(Supported(Put(head, "up", FALSE)))

_get_static_info(f, interface) ==
    LET parser == Load(f)
        hwaddr == Hwaddr(interface)
        sec == SectionId(hwaddr)
        base == [supportedrequestmodes |-> supportedrequestmodes,
                 requestmode |-> S("static")]
        data(ipv4) == [connectionid |-> interface.name,
                       label |-> interface.name,
                       hwaddr |-> hwaddr,
                       up |-> FALSE,
                       ipv4 |-> ipv4,
                       wireless |-> FALSE]
    IN  IF sec \notin DOMAIN parser THEN Returns(data(base))
        ELSE IF {"ipv4", "nameservers"} \ DOMAIN parser[sec] # {}
        THEN Raises("NoOptionError")
        ELSE LET ipv4_information == split(parser[sec]["ipv4"], "/")
             IN  IF Len(ipv4_information) < 3 THEN Raises("IndexError")
                 ELSE Returns(data(
                     Put(Put(Put(Put(base,
                         "address", ipv4_information[1]),
                         "dns", split(parser[sec]["nameservers"], ",")),
                         "netmask", ipv4_information[2]),
                         "gateway", ipv4_information[3])))

_get_info(list, pr, f, interface) ==
    IF _interface_to_service(list, pr, interface.name) # None
    THEN _get_service_info(pr, _interface_to_service(list, pr, interface.name))
    ELSE _get_static_info(f, interface)

\* mutant: the loop without the test of the loopback flag
RECURSIVE DetailsFromEvery(_, _, _, _, _)
DetailsFromEvery(all, from, list, pr, f) ==
    IF from > Len(all) THEN Returns(<<>>)
    ELSE LET one == _get_info(list, pr, f, all[from])
             rest == DetailsFromEvery(all, from + 1, list, pr, f)
         IN  IF one.exc # "none" THEN one
             ELSE IF rest.exc # "none" THEN rest
             ELSE Returns(<<one.data>> \o rest.data)

\* the loop of get_interfaces_details over interfaces[from..]: the infos of
\* the interfaces whose loopback flag is clear; the first exception escapes
RECURSIVE DetailsFrom(_, _, _, _, _)
DetailsFrom(all, from, list, pr, f) ==
    IF from > Len(all) THEN Returns(<<>>)
    ELSE IF ~BitClear(all[from].flags, IFF_LOOPBACK)
    THEN DetailsFrom(all, from + 1, list, pr, f)
    ELSE LET one == _get_info(list, pr, f, all[from])
             rest == DetailsFrom(all, from + 1, list, pr, f)
         IN  IF one.exc # "none" THEN one
             ELSE IF rest.exc # "none" THEN rest
             ELSE Returns(<<one.data>> \o rest.data)

get_interfaces_details(list, pr, f) == DetailsFrom(ifaces, 1, list, pr, f)

\* sorted(dictionary.items()): the keys of the info dicts, in sorted order
SortedKeys ==
    <<"address", "connectionid", "dns", "gateway", "hwaddr", "ipv4", "label",
      "netmask", "requestmode", "supportedrequestmodes", "up", "wireless">>

\* stringList += text(item) + ' '
RECURSIVE ItemsText(_)
ItemsText(val) ==
    IF val = <<>> THEN <<>> ELSE Head(val) \o S(" ") \o ItemsText(Tail(val))

\* the lines of _dict_to_string for the keys SortedKeys[from..]
RECURSIVE DictLines(_, _)
DictLines(dictionary, from) ==
    IF from > Len(SortedKeys) THEN <<>>
    ELSE LET key == SortedKeys[from]
             rest == DictLines(dictionary, from + 1)
         IN  IF key \notin DOMAIN dictionary THEN rest
             ELSE IF key = "ipv4"
             THEN LET sub == DictLines(dictionary[key], 1)
                  IN  [i \in 1..Len(sub) |-> S(key) \o S("-") \o sub[i]] \o rest
             ELSE IF key \in {"dns", "supportedrequestmodes"}
             THEN <<S(key) \o S(": ") \o ItemsText(dictionary[key])>> \o rest
             ELSE IF key \in {"up", "wireless"}
             THEN <<S(key) \o S(": ")
                      \o (IF dictionary[key] THEN S("True") ELSE S("False"))>> \o rest
             ELSE <<S(key) \o S(": ") \o dictionary[key]>> \o rest

_dict_to_string(dictionary) == DictLines(dictionary, 1)

\* get_interface: the first info whose connectionid is iface, as lines
get_interface(list, pr, f, iface) ==
    LET all == get_interfaces_details(list, pr, f)
    IN  IF all.exc # "none" THEN all
        ELSE IF \E i \in 1..Len(all.data) : all.data[i].connectionid = iface
        THEN Returns(_dict_to_string(all.data[
                 CHOOSE i \in 1..Len(all.data) :
                     /\ all.data[i].connectionid = iface
                     /\ \A j \in 1..(i - 1) : all.data[j].connectionid # iface]))
        ELSE Returns(None)

----------------------------------------------------------------------------
(* Reconciler.  The outcome of a call is [outcome, err, value] together    *)
(* with the daemon properties and the file it leaves and the log of the    *)
(* daemon mutations and file writes it issued.                             *)

Return(v, pr, f, lg) ==
    [outcome |-> "return", err |-> "", value |-> v,
     props |-> pr, file |-> f, log |-> lg]

\* raise salt.exceptions.CommandExecutionError(msg); err is the head of msg
Raise(msg, pr, f, lg) ==
    [outcome |-> "CommandExecutionError", err |-> msg, value |-> None,
     props |-> pr, file |-> f, log |-> lg]

Issued(c, service, name) == [call |-> c, service |-> service, name |-> name]

\* what service.connect() / service.disconnect() can answer
DaemonAnswers == {"null", "value", "raise"}

\* what service.set_property can refuse during one call
Faults == {"none", "IPv4.Configuration", "Nameservers.Configuration"}

up(list, pr, f, interface, answer) ==
    LET service == _interface_to_service(list, pr, interface)
        lg == <<Issued("connect", service, "")>>
    IN  IF service = None THEN Raise("Invalid interface name", pr, f, <<>>)
        ELSE IF ~_connected(pr, service)
        THEN IF answer = "raise" THEN Raise("Couldn't enable service", pr, f, lg)
             ELSE IF answer = "null"
             THEN Return("True", [pr EXCEPT ![service].State = "ready"], f, lg)
             ELSE Return("False", pr, f, lg)
        ELSE Return("True", pr, f, <<>>)

\* down without lines 361-362: an interface without a service counts as down
downUnbound(list, pr, f, interface, answer) ==
    LET service == _interface_to_service(list, pr, interface)
        lg == <<Issued("disconnect", service, "")>>
    IN  IF service = None THEN Return("True", pr, f, <<>>)
        ELSE IF _connected(pr, service)
        THEN IF answer = "raise" THEN Raise("Couldn't disable service", pr, f, lg)
             ELSE IF answer = "null"
             THEN Return("True", [pr EXCEPT ![service].State = "idle"], f, lg)
             ELSE Return("False", pr, f, lg)
        ELSE Return("True", pr, f, <<>>)

down(list, pr, f, interface, answer) ==
    LET service == _interface_to_service(list, pr, interface)
        lg == <<Issued("disconnect", service, "")>>
    IN  IF service = None THEN Raise("Invalid interface name", pr, f, <<>>)
        ELSE IF _connected(pr, service)
        THEN IF answer = "raise" THEN Raise("Couldn't disable service", pr, f, lg)
             ELSE IF answer = "null"
             THEN Return("True", [pr EXCEPT ![service].State = "idle"], f, lg)
             ELSE Return("False", pr, f, lg)
        ELSE Return("True", pr, f, <<>>)

\* ipv4 = service.get_property('IPv4.Configuration') with the four keys assigned
Configuration(p, method, address, nmask, gateway) ==
    Put(Put(Put(Put(IPv4CfgOf(p), "Method", method), "Address", address),
            "Netmask", nmask), "Gateway", gateway)

\* set_dhcp_linklocal_all without line 415, the nameservers left as they were
set_dhcp_linklocal_allKeepsNameservers(list, pr, f, interface, fault) ==
    LET service == _interface_to_service(list, pr, interface)
        ipv4 == Configuration(pr[service], S("dhcp"), <<>>, <<>>, <<>>)
        pr1 == set_property(pr, service, "IPv4.Configuration", ipv4)
        lg1 == <<Issued("set_property", service, "IPv4.Configuration")>>
        lg2 == Append(lg1, Issued("set_property", service, "Nameservers.Configuration"))
    IN  IF service = None THEN Raise("Invalid interface name", pr, f, <<>>)
        ELSE IF fault = "IPv4.Configuration"
        THEN Raise("Couldn't set dhcp linklocal", pr, f, lg1)
        ELSE IF fault = "Nameservers.Configuration"
        THEN Raise("Couldn't set dhcp linklocal", pr1, f, lg2)
        ELSE Return("True", pr1, f, lg2)

set_dhcp_linklocal_all(list, pr, f, interface, fault) ==
    LET service == _interface_to_service(list, pr, interface)
        ipv4 == Configuration(pr[service], S("dhcp"), <<>>, <<>>, <<>>)
        pr1 == set_property(pr, service, "IPv4.Configuration", ipv4)
        lg1 == <<Issued("set_property", service, "IPv4.Configuration")>>
        pr2 == set_property(pr1, service, "Nameservers.Configuration", <<<<>>>>)
        lg2 == Append(lg1, Issued("set_property", service, "Nameservers.Configuration"))
    IN  IF service = None THEN Raise("Invalid interface name", pr, f, <<>>)
        ELSE IF fault = "IPv4.Configuration"
        THEN Raise("Couldn't set dhcp linklocal", pr, f, lg1)
        ELSE IF fault = "Nameservers.Configuration"
        THEN Raise("Couldn't set dhcp linklocal", pr1, f, lg2)
        ELSE Return("True", pr2, f, lg2)

\* set_static_all, lines 484-492: the validation, and the nameservers
\* turned into a list.  A returned value is the list the call goes on with.
set_static_validate(pr, f, address, nmask, gateway, nameservers) ==
    LET v == _validate_ipv4(<<address, nmask, gateway>>)
    IN  IF ~v.valid THEN Raise(v.msg, pr, f, <<>>)
        ELSE IF Truthy(nameservers)
        THEN IF ~_space_delimited_list(nameservers)
             THEN Raise("not a valid list", pr, f, <<>>)
             ELSE IF nameservers.kind # "list"
             THEN Return(split(nameservers.val, " "), pr, f, <<>>)
             ELSE Return(nameservers.val, pr, f, <<>>)
        ELSE Return(<<>>, pr, f, <<>>)

\* set_static_all without lines 481-483, going on without a service
set_static_checkUnbound(list, pr, f, interface, address, nmask, gateway, nameservers) ==
    set_static_validate(pr, f, address, nmask, gateway, nameservers)

\* set_static_all up to the second _interface_to_service: the first
\* resolution, then the validation
set_static_check(list, pr, f, interface, address, nmask, gateway, nameservers) ==
    IF _interface_to_service(list, pr, interface) = None
    THEN Raise("Invalid interface name", pr, f, <<>>)
    ELSE set_static_validate(pr, f, address, nmask, gateway, nameservers)

\* set_static_all that also records in the file what it sets on a service
set_static_applyWritesBoth(list, pr, f, c, fault) ==
    LET service == _interface_to_service(list, pr, c.interface)
        ipv4 == Configuration(pr[service], S("manual"), c.address, c.netmask, c.gateway)
        pr1 == set_property(pr, service, "IPv4.Configuration", ipv4)
        lg1 == <<Issued("set_property", service, "IPv4.Configuration")>>
        pr2 == set_property(pr1, service, "Nameservers.Configuration", c.nameservers)
        lg2 == Append(lg1, Issued("set_property", service, "Nameservers.Configuration"))
        f1 == _configure_static_interface(f, Interface(c.interface), c.address,
                                          c.netmask, c.gateway, join(S(","), c.nameservers))
    IN  IF service = None
        THEN IF interface_exists(c.interface)
             THEN Return("True", pr,
                         _configure_static_interface(f, Interface(c.interface),
                             c.address, c.netmask, c.gateway,
                             join(S(","), c.nameservers)),
                         <<Issued("write", None, "")>>)
             ELSE Raise("Invalid interface name", pr, f, <<>>)
        ELSE IF fault = "IPv4.Configuration"
        THEN Raise("Couldn't set manual settings", pr, f, lg1)
        ELSE IF c.nameservers # <<>>
        THEN IF fault = "Nameservers.Configuration"
             THEN Raise("Couldn't set manual settings", pr1, f, lg2)
             ELSE Return("True", pr2, f1, lg2)
        ELSE Return("True", pr1, f1, lg1)

\* set_static_all that puts IPv4.Configuration back when the nameservers fail
set_static_applyRollsBack(list, pr, f, c, fault) ==
    LET service == _interface_to_service(list, pr, c.interface)
        ipv4 == Configuration(pr[service], S("manual"), c.address, c.netmask, c.gateway)
        pr1 == set_property(pr, service, "IPv4.Configuration", ipv4)
        lg1 == <<Issued("set_property", service, "IPv4.Configuration")>>
        pr2 == set_property(pr1, service, "Nameservers.Configuration", c.nameservers)
        lg2 == Append(lg1, Issued("set_property", service, "Nameservers.Configuration"))
    IN  IF service = None
        THEN IF interface_exists(c.interface)
             THEN Return("True", pr,
                         _configure_static_interface(f, Interface(c.interface),
                             c.address, c.netmask, c.gateway,
                             join(S(","), c.nameservers)),
                         <<Issued("write", None, "")>>)
             ELSE Raise("Invalid interface name", pr, f, <<>>)
        ELSE IF fault = "IPv4.Configuration"
        THEN Raise("Couldn't set manual settings", pr, f, lg1)
        ELSE IF c.nameservers # <<>>
        THEN IF fault = "Nameservers.Configuration"
             THEN Raise("Couldn't set manual settings", pr, f, lg2)
             ELSE Return("True", pr2, f, lg2)
        ELSE Return("True", pr1, f, lg1)

\* set_static_all from the second _interface_to_service on; c holds the
\* arguments, nameservers as left by the first part
set_static_apply(list, pr, f, c, fault) ==
    LET service == _interface_to_service(list, pr, c.interface)
        ipv4 == Configuration(pr[service], S("manual"), c.address, c.netmask, c.gateway)
        pr1 == set_property(pr, service, "IPv4.Configuration", ipv4)
        lg1 == <<Issued("set_property", service, "IPv4.Configuration")>>
        pr2 == set_property(pr1, service, "Nameservers.Configuration", c.nameservers)
        lg2 == Append(lg1, Issued("set_property", service, "Nameservers.Configuration"))
    IN  IF service = None
        THEN IF interface_exists(c.interface)
             THEN Return("True", pr,
                         _configure_static_interface(f, Interface(c.interface),
                             c.address, c.netmask, c.gateway,
                             join(S(","), c.nameservers)),
                         <<Issued("write", None, "")>>)
             ELSE Raise("Invalid interface name", pr, f, <<>>)
        ELSE IF fault = "IPv4.Configuration"
        THEN Raise("Couldn't set manual settings", pr, f, lg1)
        ELSE IF c.nameservers # <<>>
        THEN IF fault = "Nameservers.Configuration"
             THEN Raise("Couldn't set manual settings", pr1, f, lg2)
             ELSE Return("True", pr2, f, lg2)
        ELSE Return("True", pr1, f, lg1)

\* build_interface without the check of line 541
build_interfaceAnyType(list, pr, f, iface, iface_type, enable, settings, fault, answer) ==
    LET r1 == IF "proto" \notin DOMAIN settings \/ settings["proto"] = S("dhcp")
              THEN set_dhcp_linklocal_all(list, pr, f, iface, fault)
              ELSE IF settings["proto"] # S("static")
              THEN Raise("Protocol type is not supported", pr, f, <<>>)
              ELSE IF {"ipaddr", "netmask", "gateway"} \subseteq DOMAIN settings
              THEN Return(None, pr, f, <<>>)
              ELSE [Raise("settings", pr, f, <<>>) EXCEPT !.outcome = "KeyError"]
        r2 == IF enable THEN up(list, r1.props, r1.file, iface, answer)
              ELSE Return(None, r1.props, r1.file, <<>>)
        lg == r1.log \o r2.log
        r3 == get_interface(list, r2.props, r2.file, iface)
    IN  IF r1.outcome # "return" THEN r1
        ELSE IF r2.outcome # "return" THEN [r2 EXCEPT !.log = lg]
        ELSE IF r3.exc # "none"
        THEN [Raise("", r2.props, r2.file, lg) EXCEPT !.outcome = r3.exc]
        ELSE Return(r3.data, r2.props, r2.file, lg)

\* build_interface; settings is the dict of the keyword arguments.  The
\* static branch reads ipaddr, netmask and gateway and collects the dns
\* values into locals that nothing uses afterwards.
build_interface(list, pr, f, iface, iface_type, enable, settings, fault, answer) ==
    LET r1 == IF "proto" \notin DOMAIN settings \/ settings["proto"] = S("dhcp")
              THEN set_dhcp_linklocal_all(list, pr, f, iface, fault)
              ELSE IF settings["proto"] # S("static")
              THEN Raise("Protocol type is not supported", pr, f, <<>>)
              ELSE IF {"ipaddr", "netmask", "gateway"} \subseteq DOMAIN settings
              THEN Return(None, pr, f, <<>>)
              ELSE [Raise("settings", pr, f, <<>>) EXCEPT !.outcome = "KeyError"]
        r2 == IF enable THEN up(list, r1.props, r1.file, iface, answer)
              ELSE Return(None, r1.props, r1.file, <<>>)
        lg == r1.log \o r2.log
        r3 == get_interface(list, r2.props, r2.file, iface)
    IN  IF iface_type # "eth" THEN Raise("Interface type not supported", pr, f, <<>>)
        ELSE IF r1.outcome # "return" THEN r1
        ELSE IF r2.outcome # "return" THEN [r2 EXCEPT !.log = lg]
        ELSE IF r3.exc # "none"
        THEN [Raise("", r2.props, r2.file, lg) EXCEPT !.outcome = r3.exc]
        ELSE Return(r3.data, r2.props, r2.file, lg)

----------------------------------------------------------------------------
(* The host, the daemon and the file the program starts with *)

Lo   == [name |-> S("lo"),   hwaddr |-> <<"00", ":", "00", ":">>, flags |-> 73]
Eth0 == [name |-> S("eth0"), hwaddr |-> <<"aa", ":", "01", ":">>, flags |-> 67]
Eth1 == [name |-> S("eth1"), hwaddr |-> <<"aa", ":", "02", ":">>, flags |-> 3]

\* a section of an interface that is not on this host, values padded as a
\* hand-edited file may have them
OtherSection ==
    SectionId(<<"bb", ":", "09">>) :>
        [ipv4 |-> <<"A2", "/", "M1", "/", "G1", " ">>,
         nameservers |-> <<" ", "N2">>,
         name |-> S("other"), mac |-> <<"bb", ":", "09">>, type |-> S("ethernet")]

NoFile == [exists |-> FALSE, headerless |-> FALSE, sections |-> NoSections]
OtherFile == [exists |-> TRUE, headerless |-> FALSE, sections |-> OtherSection]
\* a file whose first line is not a section header: nothing of it parses
HeaderlessFile == [exists |-> TRUE, headerless |-> TRUE, sections |-> OtherSection]

Full(a, m, g) == [Address |-> a, Netmask |-> m, Gateway |-> g]

Service(iface, type, state, method, ipv4, cfg, ns, nscfg) ==
    [Type |-> type, Interface |-> iface,
     Address |-> IF iface = S("eth0") THEN <<"aa", ":", "01">> ELSE <<"aa", ":", "02">>,
     State |-> state, Method |-> method, IPv4 |-> ipv4, Cfg |-> cfg,
     IPv6 |-> NoFields, Nameservers |-> ns, NsCfg |-> nscfg]

\* a service as connman has it after a DHCP lease
Leased(iface, type, state) ==
    Service(iface, type, state, S("dhcp"), Full(S("A2"), S("M1"), S("G1")),
            NoFields, <<S("N2")>>, <<>>)

States == {"idle", "ready", "online"}

\* the arguments of a call; first is the service set_static_all found when
\* it resolved the interface for the first time
NoCall == [interface |-> <<>>, address |-> <<>>, netmask |-> <<>>,
           gateway |-> <<>>, given |-> <<>>, nameservers |-> <<>>,
           first |-> None]
NoRet == [op |-> "none", interface |-> <<>>, input |-> "", pre |-> "",
          outcome |-> "", err |-> "", value |-> None]

Idle ==
    /\ pc = "idle"
    /\ call = NoCall
    /\ ret = NoRet
    /\ log = <<>>

----------------------------------------------------------------------------
(* Calls *)

\* the State of the service the call resolved interface to ("none": no service)
Saw(interface) ==
    IF _interface_to_service(services, props, interface) = None THEN "none"
    ELSE props[_interface_to_service(services, props, interface)].State

\* the call op(interface) finished with result r; ret.pre is what it saw
Done(op, interface, input, r) ==
    /\ ret' = [op |-> op, interface |-> interface, input |-> input,
               pre |-> Saw(interface),
               outcome |-> r.outcome, err |-> r.err, value |-> r.value]
    /\ props' = r.props
    /\ file' = r.file
    /\ log' = r.log

\* a read finished with result r
Read(op, interface, r) ==
    /\ ret' = [op |-> op, interface |-> interface, input |-> "", pre |-> "",
               outcome |-> IF r.exc = "none" THEN "return" ELSE r.exc,
               err |-> "", value |-> r.data]
    /\ log' = <<>>
    /\ UNCHANGED <<props, file>>

Up(interface, answer) ==
    /\ pc = "idle"
    /\ Done("up", interface, answer, up(services, props, file, interface, answer))
    /\ UNCHANGED <<ifaces, services, pc, call>>

Down(interface, answer) ==
    /\ pc = "idle"
    /\ Done("down", interface, answer, down(services, props, file, interface, answer))
    /\ UNCHANGED <<ifaces, services, pc, call>>

SetDhcpLinklocalAll(interface, fault) ==
    /\ pc = "idle"
    /\ Done("set_dhcp_linklocal_all", interface, fault,
            set_dhcp_linklocal_all(services, props, file, interface, fault))
    /\ UNCHANGED <<ifaces, services, pc, call>>

\* set_static_all, lines 481-492; call keeps the arguments, ret.input
\* whether the validation accepts them
SetStaticAllCheck(interface, a) ==
    /\ pc = "idle"
    /\ LET r == set_static_check(services, props, file, interface,
                                 a.address, a.netmask, a.gateway, a.nameservers)
       IN  /\ call' = [interface |-> interface, address |-> a.address,
                       netmask |-> a.netmask, gateway |-> a.gateway,
                       given |-> a.nameservers,
                       nameservers |-> IF r.outcome = "return" THEN r.value ELSE <<>>,
                       first |-> _interface_to_service(services, props, interface)]
           /\ IF r.outcome = "return"
              THEN /\ pc' = "set_static_all"
                   /\ ret' = NoRet
                   /\ log' = <<>>
                   /\ UNCHANGED <<props, file>>
              ELSE /\ Done("set_static_all", interface,
                           IF set_static_validate(props, file, a.address, a.netmask,
                                                  a.gateway, a.nameservers).outcome = "return"
                           THEN "valid" ELSE "invalid", r)
                   /\ pc' = "idle"
    /\ UNCHANGED <<ifaces, services>>

\* set_static_all, lines 493-511
SetStaticAllApply(fault) ==
    /\ pc = "set_static_all"
    /\ Done("set_static_all", call.interface, fault,
            set_static_apply(services, props, file, call, fault))
    /\ pc' = "idle"
    /\ UNCHANGED <<ifaces, services, call>>

GetInterfacesDetails ==
    /\ pc = "idle"
    /\ Read("get_interfaces_details", <<>>, get_interfaces_details(services, props, file))
    /\ UNCHANGED <<ifaces, services, pc, call>>

GetInterface(iface) ==
    /\ pc = "idle"
    /\ Read("get_interface", iface, get_interface(services, props, file, iface))
    /\ UNCHANGED <<ifaces, services, pc, call>>

BuildInterface(iface, iface_type, enable, settings, fault, answer) ==
    /\ pc = "idle"
    /\ call' = [NoCall EXCEPT !.interface = iface,
                              !.given = [iface_type |-> iface_type, enable |-> enable,
                                         settings |-> settings, answer |-> answer]]
    /\ Done("build_interface", iface, fault,
            build_interface(services, props, file, iface, iface_type, enable,
                            settings, fault, answer))
    /\ UNCHANGED <<ifaces, services, pc>>

\* _validate_ipv4 called on its own
ValidateIpv4(value) ==
    /\ pc = "idle"
    /\ call' = [NoCall EXCEPT !.given = value]
    /\ ret' = [NoRet EXCEPT !.op = "_validate_ipv4", !.outcome = "return",
                            !.value = _validate_ipv4(value)]
    /\ log' = <<>>
    /\ UNCHANGED <<ifaces, services, props, file, pc>>

\* _get_service_info called on its own, for a service the daemon lists
GetServiceInfo(service) ==
    /\ pc = "idle"
    /\ \E k \in 1..Len(services) : services[k] = service
    /\ Read("_get_service_info", S(service), _get_service_info(props, service))
    /\ UNCHANGED <<ifaces, services, pc, call>>

\* _interface_to_service called on its own; call.given is the listing the
\* daemon gave it
InterfaceToService(iface) ==
    /\ pc = "idle"
    /\ call' = [NoCall EXCEPT !.interface = iface, !.given = services]
    /\ ret' = [NoRet EXCEPT !.op = "_interface_to_service", !.interface = iface,
                            !.outcome = "return",
                            !.value = _interface_to_service(services, props, iface)]
    /\ log' = <<>>
    /\ UNCHANGED <<ifaces, services, props, file, pc>>

\* _configure_static_interface called on its own
ConfigureStaticInterface(interface, address, nmask, gateway, dns) ==
    /\ pc = "idle"
    /\ interface_exists(interface)
    /\ call' = [interface |-> interface, address |-> address, netmask |-> nmask,
                gateway |-> gateway, given |-> dns, nameservers |-> dns,
                first |-> None]
    /\ Done("_configure_static_interface", interface, "",
            Return("True", props,
                   _configure_static_interface(file, Interface(interface),
                       address, nmask, gateway, join(S(","), dns)),
                   <<Issued("write", None, "")>>))
    /\ UNCHANGED <<ifaces, services, pc>>

\* _get_static_info called on its own
GetStaticInfo(interface) ==
    /\ pc = "idle"
    /\ interface_exists(interface)
    /\ Read("_get_static_info", interface, _get_static_info(file, Interface(interface)))
    /\ UNCHANGED <<ifaces, services, pc, call>>

----------------------------------------------------------------------------
(* The daemon, at any time, also between the two resolutions of a call *)

DaemonServiceAdded(s) ==
    /\ \A i \in 1..Len(services) : services[i] # s
    /\ services' \in {Append(services, s), <<s>> \o services}
    /\ UNCHANGED <<ifaces, props, file, pc, call, ret, log>>

DaemonServiceRemoved(s) ==
    /\ \E i \in 1..Len(services) : services[i] = s
    /\ services' = SelectSeq(services, LAMBDA x : x # s)
    /\ UNCHANGED <<ifaces, props, file, pc, call, ret, log>>

DaemonState(s, st) ==
    /\ props[s].State # st
    /\ props' = [props EXCEPT ![s].State = st]
    /\ UNCHANGED <<ifaces, services, file, pc, call, ret, log>>

----------------------------------------------------------------------------
(* Spec: set_static_all and get_interface, with the daemon adding and      *)
(* removing the service of eth0 at any time.  eth1 has no service.         *)

Interfaces == {S("eth0"), S("eth1"), S("wlan0")}

Args(a, m, g, n) == [address |-> a, netmask |-> m, gateway |-> g, nameservers |-> n]

List(v) == [kind |-> "list", val |-> v]
Str(v) == [kind |-> "str", val |-> v]
Num(v) == [kind |-> "num", val |-> v]

\* arguments the validation accepts; the last is a blank string, which has
\* __iter__ and is split on ' ' into empty names
ValidArgs ==
    {Args(S("A1"), S("M1"), S("G1"), List(<<>>)),
     Args(S("A1"), S("M1"), S("G1"), List(<<S("N1")>>)),
     Args(S("A1"), S("M1"), S("G1"), Str(<<"N1", " ", "N2">>)),
     Args(S("A1"), S("M1"), S("G1"), Str(<<" ">>))}

InvalidArgs ==
    {Args(S("X"), S("M1"), S("G1"), List(<<>>)),
     Args(S("A1"), S("A1"), S("G1"), List(<<>>)),
     Args(S("A1"), S("M1"), S("X"), List(<<S("N1")>>)),
     Args(S("A1"), S("M1"), S("G1"), Num(7))}

Init ==
    /\ ifaces \in {<<Lo, Eth0, Eth1>>, <<Lo, Eth1>>}
    /\ services \in {<<>>, <<"s1">>}
    /\ \E st \in {"idle", "online"} :
           props = [s \in ServiceIds |->
                       Leased(S("eth0"), IF s = "s1" THEN "ethernet" ELSE "wifi", st)]
    /\ file \in {NoFile, OtherFile, HeaderlessFile}
    /\ Idle

Next ==
    \/ \E i \in Interfaces, a \in ValidArgs \cup InvalidArgs : SetStaticAllCheck(i, a)
    \/ \E x \in Faults : SetStaticAllApply(x)
    \/ \E i \in Interfaces : GetInterface(i)
    \/ DaemonServiceAdded("s1")
    \/ DaemonServiceRemoved("s1")

Spec == Init /\ [][Next]_vars

----------------------------------------------------------------------------
(* SpecLink: up and down, with the daemon listing two services of eth0 in  *)
(* either order and changing their states.                                 *)

InitLink ==
    /\ ifaces = <<Lo, Eth0, Eth1>>
    /\ services \in {<<>>, <<"s1">>, <<"s1", "s2">>, <<"s2", "s1">>}
    /\ \E st \in [ServiceIds -> States] :
           props = [s \in ServiceIds |->
                       Leased(S("eth0"), IF s = "s1" THEN "ethernet" ELSE "wifi", st[s])]
    /\ file = NoFile
    /\ Idle

NextLink ==
    \/ \E i \in Interfaces, a \in DaemonAnswers : Up(i, a)
    \/ \E i \in Interfaces, a \in DaemonAnswers : Down(i, a)
    \/ \E s \in ServiceIds : DaemonServiceAdded(s)
    \/ \E s \in ServiceIds : DaemonServiceRemoved(s)
    \/ \E s \in ServiceIds, st \in States : DaemonState(s, st)

SpecLink == InitLink /\ [][NextLink]_vars

----------------------------------------------------------------------------
(* SpecStore: the Static Store on its own, _configure_static_interface and *)
(* _get_static_info applied to the interfaces of the host.                 *)

StoreAddresses == {S("A1"), <<" ", "A1">>}
StoreGateways == {S("G1")}
StoreNetmasks == {S("M1")}
MaxNameservers == 2
StoreNameservers ==
    {<<>>, <<S("N1")>>, <<S("N1"), S("N2")>>, <<S("N1"), S("N2"), S("N1")>>}

InitStore ==
    /\ ifaces = <<Lo, Eth0, Eth1>>
    /\ services = <<>>
    /\ props = [s \in ServiceIds |-> Leased(S("eth0"), "ethernet", "idle")]
    /\ file \in {NoFile, OtherFile, HeaderlessFile}
    /\ Idle

NextStore ==
    \/ \E i \in {S("eth0"), S("eth1")}, a \in StoreAddresses, m \in StoreNetmasks,
          g \in StoreGateways, n \in StoreNameservers :
           /\ Len(n) <= MaxNameservers
           /\ ConfigureStaticInterface(i, a, m, g, n)
    \/ \E i \in {S("eth0"), S("eth1")} : GetStaticInfo(i)

SpecStore == InitStore /\ [][NextStore]_vars

----------------------------------------------------------------------------
(* SpecRead: the read operations over what the daemon and the file can     *)
(* hold.  s1 is the service of eth0; s2 is a second service of eth0 or the *)
(* service of eth1.                                                        *)

Methods == {S("dhcp"), S("manual"), S("fixed"), S("off")}

\* the section _configure_static_interface writes for eth1
Eth1File ==
    _configure_static_interface(OtherFile, Eth1, S("A1"), S("M1"), S("G1"),
                                <<"N1", ",", "N2">>)

InitRead ==
    /\ ifaces \in {<<Lo, Eth0, Eth1>>, <<Eth1, Eth0, Lo>>}
    /\ services \in {<<>>, <<"s1">>, <<"s2">>, <<"s1", "s2">>, <<"s2", "s1">>}
    /\ \E st1 \in States, m1 \in Methods, g1 \in BOOLEAN,
          i2 \in {S("eth0"), S("eth1")}, st2 \in {"idle", "online"},
          m2 \in {S("dhcp"), S("manual")} :
           props = [s \in ServiceIds |->
               IF s = "s1"
               THEN Service(S("eth0"), "ethernet", st1, m1,
                            IF g1 THEN Full(S("A2"), S("M1"), S("G1"))
                            ELSE [Address |-> S("A2"), Netmask |-> S("M1")],
                            Full(S("A1"), S("M1"), S("G1")), <<S("N2")>>, <<S("N1")>>)
               ELSE Service(i2, "wifi", st2, m2, Full(S("A2"), S("M1"), S("G1")),
                            Full(S("A1"), S("M1"), S("G1")), <<>>, <<>>)]
    /\ file \in {NoFile, OtherFile, Eth1File}
    /\ Idle

NextRead ==
    \/ GetInterfacesDetails
    \/ \E i \in Interfaces : GetInterface(i)

SpecRead == InitRead /\ [][NextRead]_vars

----------------------------------------------------------------------------
(* SpecApply: up, down, set_dhcp_linklocal_all and set_static_all on the   *)
(* service of eth0, which the daemon lists or not, as a DHCP lease left it *)
(* or as an earlier set_static_all configured it.                          *)

\* a service configured by hand
Configured(iface, type, state) ==
    Service(iface, type, state, S("manual"), Full(S("A2"), S("M1"), S("G1")),
            Full(S("A2"), S("M1"), S("G1")), <<S("N2")>>, <<S("N2")>>)

ApplyInterfaces == {S("eth0"), S("eth1")}
ApplyArgs == {Args(S("A1"), S("M1"), S("G1"), List(<<S("N1")>>))}

InitApply ==
    /\ ifaces = <<Lo, Eth0, Eth1>>
    /\ services \in {<<>>, <<"s1">>}
    /\ \E st \in {"idle", "online"}, byHand \in BOOLEAN :
           props = [s \in ServiceIds |->
                       IF byHand THEN Configured(S("eth0"), "ethernet", st)
                       ELSE Leased(S("eth0"), "ethernet", st)]
    /\ file = NoFile
    /\ Idle

NextApply ==
    \/ \E i \in ApplyInterfaces, a \in DaemonAnswers : Up(i, a)
    \/ \E i \in ApplyInterfaces, a \in DaemonAnswers : Down(i, a)
    \/ \E i \in ApplyInterfaces, x \in Faults : SetDhcpLinklocalAll(i, x)
    \/ \E i \in ApplyInterfaces, a \in ApplyArgs : SetStaticAllCheck(i, a)
    \/ \E x \in Faults : SetStaticAllApply(x)
    \/ DaemonServiceAdded("s1")
    \/ DaemonServiceRemoved("s1")

SpecApply == InitApply /\ [][NextApply]_vars

----------------------------------------------------------------------------
(* SpecBuild: build_interface on eth0, which a service is bound to or not, *)
(* and on eth1, which only the file can describe.                          *)

IfaceTypes == {"eth", "bridge"}

StaticSettings ==
    ("proto" :> S("static")) @@ ("ipaddr" :> S("A1")) @@ ("netmask" :> S("M1"))
        @@ ("gateway" :> S("G1")) @@ ("dns" :> <<S("N1")>>)

BuildSettings ==
    {NoFields, "proto" :> S("dhcp"), StaticSettings, "proto" :> S("static"),
     "proto" :> S("ppp")}

InitBuild ==
    /\ ifaces = <<Lo, Eth0, Eth1>>
    /\ services \in {<<>>, <<"s1">>}
    /\ \E st \in {"idle", "online"} :
           props = [s \in ServiceIds |-> Leased(S("eth0"), "ethernet", st)]
    /\ file \in {NoFile, Eth1File}
    /\ Idle

NextBuild ==
    \E i \in ApplyInterfaces, t \in IfaceTypes, e \in BOOLEAN, st \in BuildSettings,
       x \in Faults, a \in DaemonAnswers : BuildInterface(i, t, e, st, x, a)

SpecBuild == InitBuild /\ [][NextBuild]_vars

----------------------------------------------------------------------------
(* SpecValidate: _validate_ipv4 on lists of up to MaxElements strings      *)

MaxElements == 4

\* an address, a netmask, a padded address, and a string that is neither
Elements == {S("A1"), S("M1"), S(" ") \o S("G1") \o S(" "), S("x")}

Values == UNION {[1..n -> Elements] : n \in 0..MaxElements}

InitValidate ==
    /\ ifaces = <<Lo, Eth0, Eth1>>
    /\ services = <<>>
    /\ props = [s \in ServiceIds |-> Leased(S("eth0"), "ethernet", "idle")]
    /\ file = NoFile
    /\ Idle

NextValidate == \E value \in Values : ValidateIpv4(value)

SpecValidate == InitValidate /\ [][NextValidate]_vars

----------------------------------------------------------------------------
(* SpecNormalize: _get_service_info, _get_static_info and                  *)
(* get_interfaces_details over what the daemon can report of the service   *)
(* of eth0: any state, a Method or none, IPv4 and IPv6 properties with all, *)
(* some or none of their fields.                                           *)

IPv4Reports == {Full(S("A2"), S("M1"), S("G1")),
                [Address |-> S("A2"), Netmask |-> S("M1")],
                NoFields}

IPv6Reports == {[Address |-> S("A6"), Prefix |-> S("64"), Gateway |-> S("G6")],
                [Address |-> S("A6")],
                NoFields}

InitNormalize ==
    /\ ifaces = <<Lo, Eth0, Eth1>>
    /\ services \in {<<>>, <<"s1">>}
    /\ \E st \in States, m \in Methods \cup {NoMethod}, v4 \in IPv4Reports,
          v6 \in IPv6Reports, cfg \in {NoFields, Full(S("A1"), S("M1"), S("G1"))} :
           props = [s \in ServiceIds |->
                       IF s = "s1"
                       THEN [Service(S("eth0"), "ethernet", st, m, v4, cfg,
                                     <<S("N2")>>, <<>>) EXCEPT !.IPv6 = v6]
                       ELSE Leased(S("eth1"), "ethernet", "idle")]
    /\ file \in {NoFile, Eth1File}
    /\ Idle

NextNormalize ==
    \/ \E s \in ServiceIds : GetServiceInfo(s)
    \/ \E i \in ApplyInterfaces : GetStaticInfo(i)
    \/ GetInterfacesDetails

SpecNormalize == InitNormalize /\ [][NextNormalize]_vars

----------------------------------------------------------------------------
(* SpecResolve: _interface_to_service while the daemon adds and removes    *)
(* two services, bound to the same interface or to different ones.         *)

InitResolve ==
    /\ ifaces = <<Lo, Eth0, Eth1>>
    /\ services \in {<<>>, <<"s1">>, <<"s2">>, <<"s1", "s2">>, <<"s2", "s1">>}
    /\ \E i1 \in {S("eth0"), S("eth1")}, i2 \in Interfaces :
           props = [s \in ServiceIds |->
                       IF s = "s1" THEN Leased(i1, "ethernet", "online")
                       ELSE Leased(i2, "wifi", "idle")]
    /\ file = NoFile
    /\ Idle

NextResolve ==
    \/ \E i \in Interfaces : InterfaceToService(i)
    \/ \E s \in ServiceIds : DaemonServiceAdded(s)
    \/ \E s \in ServiceIds : DaemonServiceRemoved(s)

SpecResolve == InitResolve /\ [][NextResolve]_vars

----------------------------------------------------------------------------
(* SpecFrame: every operation of the module on eth0, while the daemon      *)
(* lists its service or not and the file has a section for it or not.      *)

\* the file after set_static_all wrote the section of eth0
Eth0File ==
    _configure_static_interface(NoFile, Eth0, S("A2"), S("M1"), S("G1"), S("N2"))

FrameInterfaces == {S("eth0")}
FrameSettings == {"proto" :> S("dhcp"), StaticSettings}
\* the daemon accepts every set_property of a call, or refuses the first
FrameFaults == {"none", "IPv4.Configuration"}

InitFrame ==
    /\ ifaces = <<Lo, Eth0, Eth1>>
    /\ services \in {<<>>, <<"s1">>}
    /\ \E st \in {"idle", "online"} :
           props = [s \in ServiceIds |-> Leased(S("eth0"), "ethernet", st)]
    /\ file \in {NoFile, Eth0File}
    /\ Idle

NextFrame ==
    \/ \E i \in FrameInterfaces, a \in DaemonAnswers : Up(i, a)
    \/ \E i \in FrameInterfaces, a \in DaemonAnswers : Down(i, a)
    \/ \E i \in FrameInterfaces, x \in FrameFaults : SetDhcpLinklocalAll(i, x)
    \/ \E i \in FrameInterfaces, a \in ApplyArgs : SetStaticAllCheck(i, a)
    \/ \E x \in FrameFaults : SetStaticAllApply(x)
    \/ \E i \in FrameInterfaces, e \in BOOLEAN, st \in FrameSettings,
          x \in FrameFaults, a \in DaemonAnswers : BuildInterface(i, "eth", e, st, x, a)
    \/ \E i \in FrameInterfaces : GetInterface(i)
    \/ GetInterfacesDetails
    \/ DaemonServiceAdded("s1")
    \/ DaemonServiceRemoved("s1")

SpecFrame == InitFrame /\ [][NextFrame]_vars

----------------------------------------------------------------------------
(* Properties *)

\* the section _configure_static_interface writes for interface i
Target(i) == SectionId(Hwaddr(Interface(i)))

HasLine(lines, l) == \E k \in 1..Len(lines) : lines[k] = l

InvalidInput ==
    {"Invalid ip address", "Invalid netmask", "Invalid gateway", "Invalid value",
     "not a valid list"}

DaemonError ==
    {"Couldn't enable service", "Couldn't disable service",
     "Couldn't set dhcp linklocal", "Couldn't set manual settings"}

\* C1: set_static_all with a valid triple, for an interface of the host to
\* which no service is bound, returns True after writing the interface's
\* section to the file, and get_interface then reports up False,
\* requestmode static and the address that was set.
C1_StaticFallback ==
    (/\ pc = "idle"
     /\ ret.op = "set_static_all"
     /\ ret.pre = "none"
     /\ ret.input # "invalid"
     /\ interface_exists(ret.interface)
     /\ _interface_to_service(services, props, ret.interface) = None)
    => /\ ret.outcome = "return"
       /\ ret.value = "True"
       /\ log = <<Issued("write", None, "")>>
       /\ Target(ret.interface) \in DOMAIN Load(file)
       /\ LET info == get_interface(services, props, file, ret.interface)
          IN  /\ info.exc = "none"
              /\ info.data # None
              /\ HasLine(info.data, <<"up", ": ", "False">>)
              /\ HasLine(info.data, <<"ipv4", "-", "requestmode", ": ", "static">>)
              /\ HasLine(info.data, <<"ipv4", "-", "address", ": ">> \o call.address)

\* C2: a set_static_all call whose triple or nameservers are invalid fails
\* with the validation error, having issued no set_property and no write.
C2_ValidationFirst ==
    (ret.op = "set_static_all" /\ ret.input = "invalid")
    => /\ ret.outcome = "CommandExecutionError"
       /\ ret.err \in InvalidInput
       /\ log = <<>>

\* C3: an upsert leaves every section that is in the store, other than the
\* one it targets, in the store with the same fields.
C3_SectionIsolated ==
    [][ret'.op = "_configure_static_interface"
       => \A sec \in DOMAIN Load(file) :
              sec # Target(call'.interface)
              => /\ sec \in DOMAIN Load(file')
                 /\ Load(file')[sec] = Load(file)[sec]
      ]_vars

\* an upsert has run on a store that holds the sections of three interfaces
C3_Witness ==
    /\ ret.op = "_configure_static_interface"
    /\ DOMAIN OtherSection \subseteq DOMAIN Load(file)
    /\ {Target(S("eth0")), Target(S("eth1"))} \subseteq DOMAIN Load(file)

\* the normalized info of interface i, from the backend that answers for it
NormalizedInfo(list, pr, f, i) ==
    IF _interface_to_service(list, pr, i) # None
    THEN _get_service_info(pr, _interface_to_service(list, pr, i))
    ELSE IF interface_exists(i) THEN _get_static_info(f, Interface(i))
    ELSE Raises("no interface")

C5_RoundTrip ==
    (ret.op = "_get_static_info" /\ call.interface = ret.interface)
    => /\ ret.outcome = "return"
       /\ {"address", "netmask", "gateway", "dns"} \subseteq DOMAIN ret.value.ipv4
       /\ ret.value.ipv4["address"] = call.address
       /\ ret.value.ipv4["netmask"] = call.netmask
       /\ ret.value.ipv4["gateway"] = call.gateway
       /\ ret.value.ipv4["dns"] = call.nameservers

\* the info in a get_interfaces_details result that comes from service s
FromService(info, s) == info.label = S(s)

\* C6: in the infos get_interfaces_details returns, a ready or online service
\* whose Method is dhcp has requestmode dhcp_linklocal, one whose Method is
\* manual or fixed has requestmode static.
C6_RequestmodeTranslation ==
    (ret.op = "get_interfaces_details" /\ ret.outcome = "return")
    => \A k \in 1..Len(ret.value) : \A s \in ServiceIds :
           (FromService(ret.value[k], s) /\ props[s].State \in {"ready", "online"})
           => /\ "ipv4" \in DOMAIN ret.value[k]
              /\ "requestmode" \in DOMAIN ret.value[k].ipv4
              /\ props[s].Method = S("dhcp")
                 => ret.value[k].ipv4["requestmode"] = S("dhcp_linklocal")
              /\ props[s].Method \in {S("manual"), S("fixed")}
                 => ret.value[k].ipv4["requestmode"] = S("static")

\* a result holds the info of a fixed service and the info of a dhcp service
C6_Witness ==
    /\ ret.op = "get_interfaces_details"
    /\ ret.outcome = "return"
    /\ \E k \in 1..Len(ret.value) :
           /\ FromService(ret.value[k], "s1")
           /\ props["s1"].Method = S("fixed")
           /\ ret.value[k].up
    /\ \E k \in 1..Len(ret.value) :
           /\ FromService(ret.value[k], "s2")
           /\ props["s2"].Method = S("dhcp")
           /\ ret.value[k].up

\* C7: every info a read returns that has an ipv4 block with a requestmode
\* has requestmode static or dhcp_linklocal.
C7_RequestmodeEnum ==
    (ret.op = "get_interfaces_details" /\ ret.outcome = "return")
    => \A k \in 1..Len(ret.value) :
           ("ipv4" \in DOMAIN ret.value[k] /\ "requestmode" \in DOMAIN ret.value[k].ipv4)
           => ret.value[k].ipv4["requestmode"] \in {S("static"), S("dhcp_linklocal")}

\* the interfaces of the host whose loopback bit (0x8) is clear, in order
NotLoopback == SelectSeq(ifaces, LAMBDA i : i.flags % 16 < 8)

\* C8: get_interfaces_details returns one info for each interface whose
\* loopback flag is clear, each the info of its interface, in the order of
\* the host's enumeration; no info is of an interface whose flag is set.
C8_NoLoopback ==
    (ret.op = "get_interfaces_details" /\ ret.outcome = "return")
    => /\ Len(ret.value) = Len(NotLoopback)
       /\ \A k \in 1..Len(ret.value) :
              /\ ret.value[k].connectionid = NotLoopback[k].name
              /\ ret.value[k] = _get_info(services, props, file, NotLoopback[k]).data
              /\ ret.value[k].connectionid # Lo.name

\* a result with a live and a static info on a host whose first interface
\* is not the loopback
C8_Witness ==
    /\ ret.op = "get_interfaces_details"
    /\ ret.outcome = "return"
    /\ ifaces[3] = Lo
    /\ Len(ret.value) = 2
    /\ ret.value[1].label = S("eth1")
    /\ ret.value[2].up

\* C9: up on a service that is online or ready, and down on a service that
\* is neither, return True without a connect or disconnect; down on a service
\* that is online or ready issues one disconnect and returns True when the
\* daemon answers null.
C9_NoOpInTargetState ==
    /\ (ret.op = "up" /\ ret.pre \in {"online", "ready"})
       => (ret.outcome = "return" /\ ret.value = "True" /\ log = <<>>)
    /\ (ret.op = "down" /\ ret.pre = "idle")
       => (ret.outcome = "return" /\ ret.value = "True" /\ log = <<>>)
    /\ (ret.op = "down" /\ ret.pre \in {"online", "ready"})
       => /\ Len(log) = 1
          /\ log[1].call = "disconnect"
          /\ ret.input = "null" => (ret.outcome = "return" /\ ret.value = "True")

\* up has returned True for a ready service without issuing a call
C9_Witness ==
    /\ ret.op = "up"
    /\ ret.pre = "ready"
    /\ ret.outcome = "return"
    /\ ret.value = "True"
    /\ log = <<>>

\* C10: when up or down has issued its connect or disconnect, a null answer
\* is success and every other answer is raised as a daemon error.
C10_NonNullIsError ==
    (ret.op \in {"up", "down"} /\ log # <<>>)
    => IF ret.input = "null"
       THEN ret.outcome = "return" /\ ret.value = "True"
       ELSE ret.outcome = "CommandExecutionError" /\ ret.err \in DaemonError

\* C11: when set_dhcp_linklocal_all has returned True, the service it
\* resolved has IPv4.Configuration with Method dhcp and empty Address,
\* Netmask and Gateway, and an empty Nameservers.Configuration.
C11_DhcpClears ==
    (ret.op = "set_dhcp_linklocal_all" /\ ret.outcome = "return")
    => /\ ret.value = "True"
       /\ Len(log) = 2
       /\ LET p == props[log[1].service]
          IN  /\ IPv4CfgOf(p) = [Method |-> S("dhcp"), Address |-> <<>>,
                                 Netmask |-> <<>>, Gateway |-> <<>>]
              /\ p.NsCfg = <<>>

\* set_dhcp_linklocal_all has succeeded on a service configured by hand
C11_Witness ==
    /\ ret.op = "set_dhcp_linklocal_all"
    /\ ret.outcome = "return"
    /\ props["s1"].Method = S("dhcp")
    /\ props["s1"].IPv4 = Full(S("A2"), S("M1"), S("G1"))
    /\ props["s1"].Nameservers = <<S("N2")>>
    /\ props["s1"].Cfg = Full(<<>>, <<>>, <<>>)
    /\ props["s1"].NsCfg = <<>>
    /\ props["s1"].State = "online"

\* the request build_interface was given
Built == call.given

Unsupported == {"Interface type not supported", "Protocol type is not supported"}

\* C12: when build_interface of type eth with proto static and the three
\* settings has returned the info of an interface a service is bound to,
\* it has set IPv4.Configuration first and the info shows requestmode
\* static with the ipaddr, netmask and gateway of the settings.
C12_StaticApplied ==
    (/\ ret.op = "build_interface"
     /\ ret.outcome = "return"
     /\ ret.pre # "none"
     /\ Built.iface_type = "eth"
     /\ Built.settings = StaticSettings)
    => /\ log # <<>>
       /\ log[1] = Issued("set_property", "s1", "IPv4.Configuration")
       /\ HasLine(ret.value, S("ipv4") \o S("-") \o S("requestmode") \o S(": ") \o S("static"))
       /\ HasLine(ret.value, S("ipv4") \o S("-") \o S("address") \o S(": ")
                                 \o Built.settings["ipaddr"])
       /\ HasLine(ret.value, S("ipv4") \o S("-") \o S("netmask") \o S(": ")
                                 \o Built.settings["netmask"])
       /\ HasLine(ret.value, S("ipv4") \o S("-") \o S("gateway") \o S(": ")
                                 \o Built.settings["gateway"])

\* C13: build_interface of a type other than eth, or of type eth with a
\* proto that is neither dhcp nor static, raises an unsupported-operation
\* error and has called no set_property, connect or disconnect and written
\* nothing to the file.
C13_UnsupportedIsInert ==
    (/\ ret.op = "build_interface"
     /\ \/ Built.iface_type # "eth"
        \/ /\ "proto" \in DOMAIN Built.settings
           /\ Built.settings["proto"] \notin {S("dhcp"), S("static")})
    => /\ ret.outcome = "CommandExecutionError"
       /\ ret.err \in Unsupported
       /\ ret.err = (IF Built.iface_type # "eth" THEN "Interface type not supported"
                     ELSE "Protocol type is not supported")
       /\ log = <<>>

\* build_interface was asked for a bridge with dhcp, enabled, on the
\* interface of an idle service, and later for type eth with proto ppp
C13_Witness ==
    /\ ret.op = "build_interface"
    /\ ret.pre = "idle"
    /\ Built.iface_type = "eth"
    /\ Built.enable
    /\ Built.settings = ("proto" :> S("ppp"))
    /\ ret.err = "Protocol type is not supported"
    /\ props["s1"].State = "idle"

\* the checks of the three fields, in order, and the messages naming them
FieldPasses(value, k) ==
    IF k = 2 THEN netmask(strip(value[k])) ELSE ipv4_addr(strip(value[k]))

FieldMessage == <<"Invalid ip address", "Invalid netmask", "Invalid gateway">>

FirstFailing(value, k) ==
    /\ ~FieldPasses(value, k)
    /\ \A j \in 1..(k - 1) : FieldPasses(value, j)

C15_UnboundIsInert ==
    (ret.op \in {"up", "down", "set_dhcp_linklocal_all"} /\ ret.pre = "none")
    => /\ ret.outcome = "CommandExecutionError"
       /\ ret.err = "Invalid interface name"
       /\ log = <<>>

\* down was called for eth0 after the daemon dropped its service, which
\* an earlier set_dhcp_linklocal_all had configured
C15_Witness ==
    /\ ret.op = "down"
    /\ ret.interface = S("eth0")
    /\ ret.pre = "none"
    /\ ret.err = "Invalid interface name"
    /\ services = <<>>
    /\ props["s1"].Cfg = Full(<<>>, <<>>, <<>>)

\* the IPv4.Configuration the last call asked for
Asked ==
    IF ret.op = "set_static_all"
    THEN [Method |-> S("manual"), Address |-> call.address,
          Netmask |-> call.netmask, Gateway |-> call.gateway]
    ELSE [Method |-> S("dhcp"), Address |-> <<>>, Netmask |-> <<>>, Gateway |-> <<>>]

\* C16: when set_static_all (with nameservers) or set_dhcp_linklocal_all on
\* a listed service has set IPv4.Configuration and the daemon then refuses
\* Nameservers.Configuration, the call raises a daemon error, has issued
\* each set_property once, and the service keeps the new IPv4.Configuration.
C16_NoRollback ==
    (/\ ret.op \in {"set_static_all", "set_dhcp_linklocal_all"}
     /\ ret.input = "Nameservers.Configuration"
     /\ ret.pre # "none"
     /\ ret.op = "set_static_all" => call.nameservers # <<>>)
    => /\ ret.outcome = "CommandExecutionError"
       /\ ret.err \in DaemonError
       /\ Len(log) = 2
       /\ log[1].name = "IPv4.Configuration"
       /\ log[2].name = "Nameservers.Configuration"
       /\ log[2].service = log[1].service
       /\ IPv4CfgOf(props[log[1].service]) = Asked

\* set_static_all failed on the nameservers of a service that held a lease:
\* the address is the new one, the nameservers are the old ones
C16_Witness ==
    /\ ret.op = "set_static_all"
    /\ ret.input = "Nameservers.Configuration"
    /\ ret.err = "Couldn't set manual settings"
    /\ props["s1"].Method = S("manual")
    /\ props["s1"].Cfg = Full(S("A1"), S("M1"), S("G1"))
    /\ props["s1"].NsCfg = <<>>
    /\ call.nameservers = <<S("N1")>>

\* the properties of the service _get_service_info was called for
Normalized == props[ret.interface[1]]

\* what line 176 makes the IPv4 fields be read from
IPv4Source(p) == IF p.Method = S("manual") THEN IPv4CfgOf(p) ELSE IPv4Of(p)

\* C17: _get_service_info returns whatever IPv4 or IPv6 field the daemon
\* leaves out: for a ready or online service the info has requestmode,
\* address and netmask exactly when the daemon reports Method, Address and
\* Netmask, and always dns and supportedrequestmodes.
C17_MissingFieldOmitted ==
    (ret.op = "_get_service_info")
    => /\ ret.outcome = "return"
       /\ ret.value.connectionid = Normalized.Interface
       /\ ret.value.up
          => /\ {"dns", "supportedrequestmodes", "gateway"} \subseteq DOMAIN ret.value.ipv4
             /\ "requestmode" \in DOMAIN ret.value.ipv4
                    <=> "Method" \in DOMAIN IPv4Source(Normalized)
             /\ "address" \in DOMAIN ret.value.ipv4
                    <=> "Address" \in DOMAIN IPv4Source(Normalized)
             /\ "netmask" \in DOMAIN ret.value.ipv4
                    <=> "Netmask" \in DOMAIN IPv4Source(Normalized)

\* the infos the last read returned
Infos ==
    IF ret.outcome # "return" THEN {}
    ELSE IF ret.op \in {"_get_service_info", "_get_static_info"} THEN {ret.value}
    ELSE IF ret.op = "get_interfaces_details"
    THEN {ret.value[k] : k \in 1..Len(ret.value)}
    ELSE {}

\* C18 as stated: an info that has an ipv4 block has up true.
C18_IPv4OnlyIfUp == \A info \in Infos : "ipv4" \in DOMAIN info => info.up

\* C18: an info made from a service has an ipv4 block exactly when up is
\* true; an info made from the file has up false and an ipv4 block with
\* requestmode static and the supported request modes.
C18_IPv4IfUpOrStatic ==
    \A info \in Infos :
        IF \E s \in ServiceIds : FromService(info, s)
        THEN "ipv4" \in DOMAIN info <=> info.up
        ELSE /\ ~info.up
             /\ "ipv4" \in DOMAIN info
             /\ info.ipv4["requestmode"] = S("static")
             /\ info.ipv4["supportedrequestmodes"] = supportedrequestmodes

\* get_interfaces_details returned the info of an idle service, without
\* ipv4, and the info of eth1 from the file, with it
C18_Witness ==
    /\ ret.op = "get_interfaces_details"
    /\ ret.outcome = "return"
    /\ Len(ret.value) = 2
    /\ FromService(ret.value[1], "s1")
    /\ ~ret.value[1].up
    /\ "ipv4" \notin DOMAIN ret.value[1]
    /\ ret.value[2].label = S("eth1")
    /\ "address" \in DOMAIN ret.value[2].ipv4

IPv6Keys == [Address |-> "address", Prefix |-> "prefix", Gateway |-> "gateway"]

\* C20: the info _get_service_info returns for a ready or online service
\* whose IPv6 property has Address, Prefix or Gateway has an ipv6 block
\* with, for each of them that is present, its value, and nothing else.
C20_IPv6Block ==
    (/\ ret.op = "_get_service_info"
     /\ ret.outcome = "return"
     /\ ret.value.up
     /\ DOMAIN Normalized.IPv6 # {})
    => /\ "ipv6" \in DOMAIN ret.value
       /\ DOMAIN ret.value.ipv6 = {IPv6Keys[k] : k \in DOMAIN Normalized.IPv6}
       /\ \A k \in DOMAIN Normalized.IPv6 :
              ret.value.ipv6[IPv6Keys[k]] = <<Normalized.IPv6[k]>>

\* the positions, in the listing the call was given, of the services bound
\* to the interface asked for
Bound == {k \in 1..Len(call.given) : props[call.given[k]].Interface = ret.interface}

\* C19: _interface_to_service returns the service at the least position of
\* the listing it was given among those bound to the interface, and None,
\* without raising, exactly when none is bound, whatever the daemon listed
\* before or lists now.
C19_FirstBound ==
    (ret.op = "_interface_to_service")
    => /\ ret.outcome = "return"
       /\ ret.value = None <=> Bound = {}
       /\ Bound # {} => \E k \in Bound : /\ ret.value = call.given[k]
                                         /\ \A j \in Bound : k <= j

\* the daemon listed s2 before s1, both bound to eth0: the call returned
\* s2, and the daemon's listing has changed since
C19_Witness ==
    /\ ret.op = "_interface_to_service"
    /\ ret.interface = S("eth0")
    /\ call.given = <<"s2", "s1">>
    /\ Bound = {1, 2}
    /\ ret.value = "s2"
    /\ services # call.given

\* the last call was a read, or found a service bound to its interface
OnService ==
    \/ ret.op \in {"get_interface", "get_interfaces_details"}
    \/ /\ ret.op \in {"up", "down", "set_dhcp_linklocal_all", "set_static_all",
                      "build_interface"}
       /\ ret.pre \in States

\* C21: a step of the program (the daemon's listing stays) in which up,
\* down, set_dhcp_linklocal_all, set_static_all or build_interface finishes
\* on an interface a service is bound to, or in which a read finishes,
\* leaves the file as it was and issues no write.
C21_FileUntouched ==
    [][(services' = services /\ OnService')
       => /\ file' = file
          /\ \A k \in 1..Len(log') : log'[k].call # "write"]_vars

\* set_static_all has set both properties of the service of eth0 while the
\* file holds a section for eth0 with another address
C21_Witness ==
    /\ ret.op = "set_static_all"
    /\ ret.pre = "online"
    /\ ret.value = "True"
    /\ Len(log) = 2
    /\ call.address = S("A1")
    /\ file = Eth0File
    /\ Target(S("eth0")) \in DOMAIN Load(file)

\* the last call wrote the file
Wrote == \E k \in 1..Len(log) : log[k].call = "write"

\* C22: set_static_all looks the service up at line 481 and again at line
\* 493.  A step that begins a call writes nothing; the step that finishes
\* set_static_all writes the file only if the first lookup found a service
\* and the second, in the daemon's listing of that moment, finds none.
C22_WriteNeedsListChange ==
    [][/\ (pc = "idle" /\ services' = services) => ~Wrote'
       /\ (pc = "set_static_all" /\ pc' = "idle" /\ Wrote')
          => /\ ret'.op = "set_static_all"
             /\ call.first # None
             /\ _interface_to_service(services, props, call.interface) = None]_vars

\* set_static_all for eth0 began while the daemon listed s1 and finished,
\* after the daemon dropped s1, by writing the section of eth0
C22_Witness ==
    /\ ret.op = "set_static_all"
    /\ ret.pre = "none"
    /\ ret.value = "True"
    /\ Wrote
    /\ call.interface = S("eth0")
    /\ call.first = "s1"
    /\ services = <<>>
    /\ Target(S("eth0")) \in DOMAIN Load(file)

====
